---- MODULE Spec2Model ----
(***************************************************************************)
(* Model of the creative-session program (solana-client/src/lib.rs) and of *)
(* the biometric NFT program (programs/biometric-nft/src/lib.rs) and the   *)
(* emotional metadata program (programs/emotional-metadata/src/lib.rs).    *)
(*                                                                         *)
(* f32 values are modelled as exact rationals [n, d] in lowest terms with  *)
(* d > 0; the only inexact operation is the square root, which is rounded  *)
(* down to a multiple of 1/SqrtScale.                                      *)
(***************************************************************************)
EXTENDS Integers, Sequences, FiniteSets, TLC

VARIABLES
    clock,          \* Clock::get()?.unix_timestamp
    session,        \* the CreativeSession account
    performance,    \* the PerformanceData account created by the latest record_performance
    trajectory,     \* the EmotionalTrajectory account
    reputation,     \* the CreatorReputation account
    pushed,         \* log of every vector pushed into trajectory.emotional_history
    applied,        \* log of every creativity_index read by update_creator_reputation
    parked,         \* the accounts of the other session: its session, trajectory and log
    collection,     \* the BiometricCollection account
    nfts,           \* the BiometricNFT accounts, in mint order
    registry,       \* the EmotionalRegistry account
    records,        \* the EmotionalMetadata accounts, in the order they were stored
    evaluation,     \* a helper function taken alone: its name, arguments and value
    call,           \* the instruction processed last, with its arguments
    result          \* its outcome: "Ok" or the error code

vars == <<clock, session, performance, trajectory, reputation, pushed, applied, parked,
          collection, nfts, registry, records, evaluation, call, result>>

sessionVars == <<session, performance, trajectory, reputation, pushed, applied, parked>>
nftVars == <<collection, nfts>>
metadataVars == <<registry, records>>

----------------------------------------------------------------------------
(* Bounds of the model *)

MaxClock == 1
MaxInteractions == 1
MaxUpdates == 2
MaxSessions == 2
MaxLongUpdates == 102
MaxSupply == 1
MaxRecords == 1
MaxMints == 2
MaxStores == 2

----------------------------------------------------------------------------
(* Rational arithmetic standing for f32 arithmetic *)

Abs(x) == IF x < 0 THEN -x ELSE x

RECURSIVE GCD(_, _)
GCD(a, b) == IF b = 0 THEN a ELSE GCD(b, a % b)

Rat(n, d) ==
    LET g == GCD(Abs(n), d)
    IN  [n |-> n \div g, d |-> d \div g]

Int2R(i) == [n |-> i, d |-> 1]
RAdd(a, b) == Rat(a.n * b.d + b.n * a.d, a.d * b.d)
RSub(a, b) == Rat(a.n * b.d - b.n * a.d, a.d * b.d)
RMul(a, b) == Rat(a.n * b.n, a.d * b.d)
RDivInt(a, k) == Rat(a.n, a.d * k)
RAbs(a) == [n |-> Abs(a.n), d |-> a.d]
RLt(a, b) == a.n * b.d < b.n * a.d
RLe(a, b) == a.n * b.d <= b.n * a.d
RMin(a, b) == IF RLe(a, b) THEN a ELSE b
RSquare(a) == RMul(a, a)

RZero == Int2R(0)
ROne == Int2R(1)
RHalf == Rat(1, 2)

SqrtScale == 100

RECURSIVE SqrtSearch(_, _, _)
SqrtSearch(k, lo, hi) ==
    IF lo >= hi THEN lo
    ELSE LET mid == (lo + hi + 1) \div 2
         IN  IF mid * mid <= k THEN SqrtSearch(k, mid, hi)
                               ELSE SqrtSearch(k, lo, mid - 1)

\* f32::sqrt, rounded down to a multiple of 1/SqrtScale
RSqrt(a) ==
    LET k == (a.n * SqrtScale * SqrtScale) \div a.d
    IN  Rat(SqrtSearch(k, 0, IF k < 46340 THEN k ELSE 46340), SqrtScale)

\* the sum of s[lo..hi], split in halves to keep the recursion shallow
RECURSIVE RSumRange(_, _, _)
RSumRange(s, lo, hi) ==
    IF lo > hi THEN RZero
    ELSE IF lo = hi THEN s[lo]
    ELSE LET mid == (lo + hi) \div 2
         IN  RAdd(RSumRange(s, lo, mid), RSumRange(s, mid + 1, hi))

RSum(s) == RSumRange(s, 1, Len(s))

----------------------------------------------------------------------------
(* Data types *)

EmotionalVector(v, a, d, c, t) ==
    [valence |-> v, arousal |-> a, dominance |-> d, confidence |-> c, timestamp |-> t]

DefaultEmotionalVector == EmotionalVector(RZero, RZero, RZero, RZero, 0)

NoKey == "11111111111111111111111111111111"

DefaultSession ==
    [status |-> "Uninitialized",
     creator |-> NoKey,
     session_id |-> "",
     start_time |-> 0,
     emotional_state |-> DefaultEmotionalVector,
     shader_params |-> <<>>,
     interaction_count |-> 0,
     compressed_state |-> <<>>,
     reputation_score |-> RZero,
     emotional_complexity |-> RZero,
     creativity_index |-> RZero,
     community_engagement |-> 0,
     last_updated |-> 0]

DefaultPerformance ==
    [session_id |-> "",
     timestamp |-> 0,
     emotional_vector |-> DefaultEmotionalVector,
     shader_parameters |-> <<>>,
     interaction_intensity |-> RZero,
     emotional_impact |-> RZero,
     creativity_boost |-> RZero,
     quality_score |-> RZero]

DefaultReputation ==
    [creator |-> NoKey,
     reputation_score |-> RZero,
     total_interactions |-> 0,
     last_updated |-> 0,
     emotional_consistency |-> RZero,
     creativity_score |-> RZero,
     community_rank |-> 0,
     total_sessions |-> 0]

DefaultTrajectory ==
    [session_id |-> "",
     emotional_history |-> <<>>,
     predicted_next |-> DefaultEmotionalVector,
     trajectory_complexity |-> RZero,
     update_count |-> 0]

----------------------------------------------------------------------------
(* Helper functions of the session program *)

hash_emotional_state_without_timestamp(e) ==
    <<e.valence, e.arousal, e.dominance, e.confidence>>

\* the digest is modelled by its preimage: the five fields in hashing order
hash_emotional_state(e) ==
    <<e.valence, e.arousal, e.dominance, e.confidence, e.timestamp>>

calculate_emotional_impact_signed(current, previous) ==
    LET valence_diff == RSub(current.valence, previous.valence)
        arousal_diff == RSub(current.arousal, previous.arousal)
        dominance_diff == RSub(current.dominance, previous.dominance)
    IN  RDivInt(RAdd(RAdd(valence_diff, arousal_diff), dominance_diff), 3)

calculate_emotional_impact(current, previous) ==
    LET valence_diff == RAbs(RSub(current.valence, previous.valence))
        arousal_diff == RAbs(RSub(current.arousal, previous.arousal))
        dominance_diff == RAbs(RSub(current.dominance, previous.dominance))
    IN  RDivInt(RAdd(RAdd(valence_diff, arousal_diff), dominance_diff), 3)

calculate_creativity_boost(shader_params, quality_score) ==
    LET len == Len(shader_params)
        param_variance ==
            IF len > 1
            THEN LET mean == RDivInt(RSum(shader_params), len)
                     variance ==
                         RDivInt(RSum([i \in 1..len |->
                                         RSquare(RSub(shader_params[i], mean))]), len)
                 IN  RSqrt(variance)
            ELSE RZero
    IN  RMin(RAdd(RMul(param_variance, RHalf), RMul(quality_score, RHalf)), ROne)

RClamp(x, lo, hi) == IF RLt(x, lo) THEN lo ELSE IF RLt(hi, x) THEN hi ELSE x

predict_next_emotional_state_clamped(history) ==
    IF Len(history) < 2
    THEN DefaultEmotionalVector
    ELSE LET last == history[Len(history)]
             second_last == history[Len(history) - 1]
         IN  EmotionalVector(
                 RClamp(RAdd(last.valence, RSub(last.valence, second_last.valence)),
                        Int2R(-1), ROne),
                 RClamp(RAdd(last.arousal, RSub(last.arousal, second_last.arousal)),
                        RZero, ROne),
                 RClamp(RAdd(last.dominance, RSub(last.dominance, second_last.dominance)),
                        RZero, ROne),
                 Rat(7, 10),
                 last.timestamp + 60)

predict_next_emotional_state(history) ==
    IF Len(history) < 2
    THEN DefaultEmotionalVector
    ELSE LET last == history[Len(history)]
             second_last == history[Len(history) - 1]
         IN  EmotionalVector(
                 RAdd(last.valence, RSub(last.valence, second_last.valence)),
                 RAdd(last.arousal, RSub(last.arousal, second_last.arousal)),
                 RAdd(last.dominance, RSub(last.dominance, second_last.dominance)),
                 Rat(7, 10),
                 last.timestamp + 60)

mean_step_distance_unclamped(history) ==
    LET step(i) ==
            LET current == history[i]
                previous == history[i - 1]
                change ==
                    RAdd(RAdd(RSquare(RSub(current.valence, previous.valence)),
                              RSquare(RSub(current.arousal, previous.arousal))),
                         RSquare(RSub(current.dominance, previous.dominance)))
            IN  RSqrt(change)
        total_change == RSum([i \in 1..(Len(history) - 1) |-> step(i + 1)])
    IN  RDivInt(total_change, Len(history) - 1)

mean_step_distance(history) ==
    LET step(i) ==
            LET current == history[i]
                previous == history[i - 1]
                change ==
                    RAdd(RAdd(RSquare(RSub(current.valence, previous.valence)),
                              RSquare(RSub(current.arousal, previous.arousal))),
                         RSquare(RSub(current.dominance, previous.dominance)))
            IN  RSqrt(change)
        total_change == RSum([i \in 1..(Len(history) - 1) |-> step(i + 1)])
    IN  RMin(RDivInt(total_change, Len(history) - 1), ROne)

calculate_trajectory_complexity_zero_default(history) ==
    IF Len(history) < 2 THEN RZero ELSE mean_step_distance(history)

calculate_trajectory_complexity(history) ==
    IF Len(history) < 2 THEN RHalf ELSE mean_step_distance(history)

update_reputation_additive(current, perf) ==
    LET learning_rate == Rat(1, 10)
    IN  RAdd(current, RMul(learning_rate, perf))

update_reputation(current, perf) ==
    LET learning_rate == Rat(1, 10)
    IN  RAdd(current, RMul(learning_rate, RSub(perf, current)))

calculate_emotional_consistency(rep) ==
    RAdd(RMul(rep, Rat(8, 10)), Rat(2, 10))

----------------------------------------------------------------------------
(* Inputs *)

Keys == {"alice", "bob"}

V0 == EmotionalVector(RZero, RZero, RZero, ROne, 1000)
VA == EmotionalVector(Rat(4, 10), Rat(6, 10), Rat(2, 10), ROne, 1060)
VB == EmotionalVector(Rat(2, 10), Rat(2, 10), Rat(2, 10), RHalf, 1060)
\* valence 2 is outside the documented domain [-1, 1]
VBad == EmotionalVector(Int2R(2), RZero, ROne, ROne, 1120)

InitialVectors == {V0, VBad}
ObservedVectors == {VA, VBad}
TrajectoryVectors == {VB, VBad}
ParamSets == {<<>>, <<Int2R(1), Int2R(2), Int2R(3)>>}
Intensities == {RHalf}
\* qualities 6 and -1 are outside the documented domain [0, 1]
Qualities == {RHalf, Rat(9, 10), Int2R(6), Int2R(-1)}
\* performance -1 is outside the documented domain [0, 1]
SessionPerformances == {RZero, ROne, Int2R(-1)}
InitialCreativityScores == {RZero, ROne}

\* session.creativity_index values for the running mean taken as a function
CreativityIndexInputs == {RZero, RHalf, ROne}

InDomain(e) ==
    /\ RLe(Int2R(-1), e.valence) /\ RLe(e.valence, ROne)
    /\ RLe(RZero, e.arousal) /\ RLe(e.arousal, ROne)
    /\ RLe(RZero, e.dominance) /\ RLe(e.dominance, ROne)
    /\ RLe(RZero, e.confidence) /\ RLe(e.confidence, ROne)

InUnit(x) == RLe(RZero, x) /\ RLe(x, ROne)

----------------------------------------------------------------------------
(* Instructions of the session program *)

HistoryCapacity == 100

push_history_without_eviction(history, state) == Append(history, state)

\* Vec::push followed by the capacity check and remove(0)
push_history(history, state) ==
    LET h == Append(history, state)
    IN  IF Len(h) > HistoryCapacity THEN Tail(h) ELSE h

Tick ==
    /\ clock' = clock + 1
    /\ call' = [op |-> "tick"]
    /\ result' = "Ok"
    /\ UNCHANGED <<sessionVars, nftVars, metadataVars, evaluation>>

initialize_session_zero_scores(creator, session_id, initial_emotional_state, shader_params) ==
    /\ session.status = "Uninitialized"
    /\ session' =
           [status |-> "Active",
            creator |-> creator,
            session_id |-> session_id,
            start_time |-> clock,
            emotional_state |-> initial_emotional_state,
            shader_params |-> shader_params,
            interaction_count |-> 0,
            compressed_state |-> hash_emotional_state(initial_emotional_state),
            reputation_score |-> RZero,
            emotional_complexity |-> RZero,
            creativity_index |-> RZero,
            community_engagement |-> 0,
            last_updated |-> clock]
    /\ call' = [op |-> "initialize_session", signer |-> creator,
                emotional_vector |-> initial_emotional_state,
                shader_parameters |-> shader_params]
    /\ result' = "Ok"
    /\ UNCHANGED <<clock, performance, trajectory, reputation, pushed, applied, parked, nftVars, metadataVars, evaluation>>

initialize_session(creator, session_id, initial_emotional_state, shader_params) ==
    /\ session.status = "Uninitialized"
    /\ session' =
           [status |-> "Active",
            creator |-> creator,
            session_id |-> session_id,
            start_time |-> clock,
            emotional_state |-> initial_emotional_state,
            shader_params |-> shader_params,
            interaction_count |-> 0,
            compressed_state |-> hash_emotional_state(initial_emotional_state),
            reputation_score |-> RHalf,
            emotional_complexity |-> RHalf,
            creativity_index |-> RHalf,
            community_engagement |-> 0,
            last_updated |-> clock]
    /\ call' = [op |-> "initialize_session", signer |-> creator,
                emotional_vector |-> initial_emotional_state,
                shader_parameters |-> shader_params]
    /\ result' = "Ok"
    /\ UNCHANGED <<clock, performance, trajectory, reputation, pushed, applied, parked, nftVars, metadataVars, evaluation>>

record_performance_storing_boost(creator, emotional_vector, shader_parameters, interaction_intensity, quality_score) ==
    /\ session.status = "Active"
    /\ performance' =
           [session_id |-> session.session_id,
            timestamp |-> clock,
            emotional_vector |-> emotional_vector,
            shader_parameters |-> shader_parameters,
            interaction_intensity |-> interaction_intensity,
            emotional_impact |->
                calculate_emotional_impact(emotional_vector, session.emotional_state),
            creativity_boost |->
                calculate_creativity_boost(shader_parameters, quality_score),
            quality_score |-> quality_score]
    /\ session' =
           [session EXCEPT
               !.emotional_state = emotional_vector,
               !.shader_params = shader_parameters,
               !.interaction_count = @ + 1,
               !.last_updated = clock,
               !.reputation_score = update_reputation(@, quality_score),
               !.creativity_index = calculate_creativity_boost(shader_parameters, quality_score)]
    /\ call' = [op |-> "record_performance",
                emotional_vector |-> emotional_vector,
                shader_parameters |-> shader_parameters,
                interaction_intensity |-> interaction_intensity,
                quality_score |-> quality_score]
    /\ result' = "Ok"
    /\ UNCHANGED <<clock, trajectory, reputation, pushed, applied, parked, nftVars, metadataVars, evaluation>>

record_performance(creator, emotional_vector, shader_parameters, interaction_intensity, quality_score) ==
    /\ session.status = "Active"
    /\ performance' =
           [session_id |-> session.session_id,
            timestamp |-> clock,
            emotional_vector |-> emotional_vector,
            shader_parameters |-> shader_parameters,
            interaction_intensity |-> interaction_intensity,
            emotional_impact |->
                calculate_emotional_impact(emotional_vector, session.emotional_state),
            creativity_boost |->
                calculate_creativity_boost(shader_parameters, quality_score),
            quality_score |-> quality_score]
    /\ session' =
           [session EXCEPT
               !.emotional_state = emotional_vector,
               !.shader_params = shader_parameters,
               !.interaction_count = @ + 1,
               !.last_updated = clock,
               !.reputation_score = update_reputation(@, quality_score)]
    /\ call' = [op |-> "record_performance",
                emotional_vector |-> emotional_vector,
                shader_parameters |-> shader_parameters,
                interaction_intensity |-> interaction_intensity,
                quality_score |-> quality_score]
    /\ result' = "Ok"
    /\ UNCHANGED <<clock, trajectory, reputation, pushed, applied, parked, nftVars, metadataVars, evaluation>>

history_entry_of_other_session(current_session, new_emotional_state) ==
    parked.session.emotional_state

history_entry_from_argument(current_session, new_emotional_state) == new_emotional_state

\* the value pushed into the history: the session's state before it is replaced
history_entry(current_session, new_emotional_state) == current_session.emotional_state

next_update_count_from_history(update_count, history) == Len(history)

\* trajectory.update_count += 1, with the history as it is after the push
next_update_count(update_count, history) == update_count + 1

update_emotional_trajectory(creator, new_emotional_state) ==
    /\ session.status = "Active"
    /\ LET history == push_history(trajectory.emotional_history,
                                   history_entry(session, new_emotional_state))
           complexity == calculate_trajectory_complexity(history)
       IN  /\ trajectory' =
                  [trajectory EXCEPT
                      !.emotional_history = history,
                      !.predicted_next = predict_next_emotional_state(history),
                      !.trajectory_complexity = complexity,
                      !.update_count = next_update_count(@, history)]
           /\ session' =
                  [session EXCEPT
                      !.emotional_state = new_emotional_state,
                      !.emotional_complexity = complexity]
    /\ pushed' = Append(pushed, session.emotional_state)
    /\ call' = [op |-> "update_emotional_trajectory",
                emotional_vector |-> new_emotional_state]
    /\ result' = "Ok"
    /\ UNCHANGED <<clock, performance, reputation, applied, parked, nftVars, metadataVars, evaluation>>

compress_emotional_state_counting(creator, compression_target) ==
    /\ session.status = "Active"
    /\ session' =
           [session EXCEPT !.compressed_state = hash_emotional_state(session.emotional_state),
                           !.interaction_count = @ + 1]
    /\ call' = [op |-> "compress_emotional_state"]
    /\ result' = "Ok"
    /\ UNCHANGED <<clock, performance, trajectory, reputation, pushed, applied, parked, nftVars, metadataVars, evaluation>>

compress_emotional_state(creator, compression_target) ==
    /\ session.status = "Active"
    /\ session' =
           [session EXCEPT !.compressed_state = hash_emotional_state(session.emotional_state)]
    /\ call' = [op |-> "compress_emotional_state"]
    /\ result' = "Ok"
    /\ UNCHANGED <<clock, performance, trajectory, reputation, pushed, applied, parked, nftVars, metadataVars, evaluation>>

running_creativity_score_old_weight(creativity_score, total_sessions, creativity_index) ==
    RDivInt(RAdd(RMul(creativity_score, Int2R(total_sessions)), creativity_index),
            total_sessions)

\* the running mean of creativity_score, evaluated after total_sessions was incremented
running_creativity_score(creativity_score, total_sessions, creativity_index) ==
    RDivInt(RAdd(RMul(creativity_score, Int2R(total_sessions - 1)), creativity_index),
            total_sessions)

weighted_reputation_without_decay(reputation_score, session_performance) ==
    LET weight == Rat(1, 10)
    IN  RAdd(reputation_score, RMul(session_performance, weight))

weighted_reputation_swapped(reputation_score, session_performance) ==
    LET weight == Rat(1, 10)
    IN  RAdd(RMul(reputation_score, weight), RMul(session_performance, RSub(ROne, weight)))

weighted_reputation(reputation_score, session_performance) ==
    LET weight == Rat(1, 10)
    IN  RAdd(RMul(reputation_score, RSub(ROne, weight)), RMul(session_performance, weight))

update_creator_reputation(creator, session_performance) ==
    /\ session.status = "Active"
    /\ LET score == weighted_reputation(reputation.reputation_score, session_performance)
           sessions == reputation.total_sessions + 1
       IN  reputation' =
               [reputation EXCEPT
                   !.reputation_score = score,
                   !.total_interactions = @ + session.interaction_count,
                   !.last_updated = clock,
                   !.total_sessions = sessions,
                   !.emotional_consistency = calculate_emotional_consistency(score),
                   !.creativity_score =
                       running_creativity_score(@, sessions, session.creativity_index)]
    /\ applied' = Append(applied, session.creativity_index)
    /\ call' = [op |-> "update_creator_reputation", signer |-> creator,
                session_performance |-> session_performance]
    /\ result' = "Ok"
    /\ UNCHANGED <<clock, session, performance, trajectory, pushed, parked, nftVars, metadataVars, evaluation>>

----------------------------------------------------------------------------
(* The session program *)

NoOtherSession ==
    [session |-> DefaultSession, trajectory |-> DefaultTrajectory, pushed |-> <<>>]

NoRegistry == [status |-> "Uninitialized", authority |-> NoKey, total_records |-> 0, last_update |-> 0]

NoEvaluation == [function |-> "none", arguments |-> <<>>, done |-> FALSE, value |-> <<>>]

NoCollection == [status |-> "Uninitialized", authority |-> NoKey, total_supply |-> 0]

Init ==
    /\ clock = 0
    /\ session = DefaultSession
    /\ performance = DefaultPerformance
    /\ trajectory = DefaultTrajectory
    /\ reputation = DefaultReputation
    /\ pushed = <<>>
    /\ applied = <<>>
    /\ parked = NoOtherSession
    /\ collection = NoCollection
    /\ nfts = <<>>
    /\ registry = NoRegistry
    /\ records = <<>>
    /\ evaluation = NoEvaluation
    /\ call = [op |-> "none"]
    /\ result = "Ok"

\* the session state machine; the clock stands still in it
Next ==
    \/ \E k \in Keys, v \in InitialVectors :
           initialize_session(k, "session-1", v, <<>>)
    \/ /\ session.interaction_count < MaxInteractions
       /\ \E k \in Keys, v \in ObservedVectors, p \in ParamSets,
             i \in Intensities, q \in Qualities :
              record_performance(k, v, p, i, q)
    \/ /\ trajectory.update_count < MaxUpdates
       /\ \E k \in Keys, v \in TrajectoryVectors : update_emotional_trajectory(k, v)
    \/ \E k \in Keys : compress_emotional_state(k, k)

Spec == Init /\ [][Next]_vars

\* the reputation accumulator fed by one session
NextReputation ==
    \/ \E k \in Keys : initialize_session(k, "session-1", V0, <<>>)
    \/ /\ session.interaction_count < MaxInteractions
       /\ \E k \in Keys, q \in Qualities : record_performance(k, V0, <<>>, RHalf, q)
    \/ /\ reputation.total_sessions < MaxSessions
       /\ \E k \in Keys, sp \in SessionPerformances : update_creator_reputation(k, sp)

\* no instruction of the program creates the CreatorReputation account: its
\* creativity_score before the first session is any of InitialCreativityScores
InitReputation ==
    /\ clock = 0
    /\ session = DefaultSession
    /\ performance = DefaultPerformance
    /\ trajectory = DefaultTrajectory
    /\ reputation \in {[DefaultReputation EXCEPT !.creativity_score = c] :
                          c \in InitialCreativityScores}
    /\ pushed = <<>>
    /\ applied = <<>>
    /\ parked = NoOtherSession
    /\ collection = NoCollection
    /\ nfts = <<>>
    /\ registry = NoRegistry
    /\ records = <<>>
    /\ evaluation = NoEvaluation
    /\ call = [op |-> "none"]
    /\ result = "Ok"

SpecReputation == InitReputation /\ [][NextReputation]_vars

\* the next instruction names the other session account and its trajectory
switch_session ==
    /\ session' = parked.session
    /\ trajectory' = parked.trajectory
    /\ pushed' = parked.pushed
    /\ parked' = [session |-> session, trajectory |-> trajectory, pushed |-> pushed]
    /\ call' = [op |-> "switch_session"]
    /\ result' = "Ok"
    /\ UNCHANGED <<clock, performance, reputation, applied, nftVars, metadataVars, evaluation>>

\* the session_id of the account being created: the other account has the first
next_session_id ==
    IF parked.session.status = "Active" THEN "session-2" ELSE "session-1"

\* two sessions, each with a trajectory of its own, their instructions interleaved
NextTwo ==
    \/ switch_session
    \/ \E v \in InitialVectors : initialize_session("alice", next_session_id, v, <<>>)
    \/ /\ session.interaction_count < MaxInteractions
       /\ record_performance("alice", VA, <<>>, RHalf, Rat(9, 10))
    \/ /\ trajectory.update_count < MaxUpdates
       /\ update_emotional_trajectory("alice", VB)
    \/ compress_emotional_state("alice", "alice")

SpecTwo == Init /\ [][NextTwo]_vars

\* all five instructions of the session program on one session and one creator record
NextProgram ==
    \/ \E k \in Keys : initialize_session(k, "session-1", V0, <<>>)
    \/ /\ session.interaction_count < MaxInteractions
       /\ \E p \in ParamSets, q \in {Rat(9, 10), Int2R(-1)} :
              record_performance("alice", VA, p, RHalf, q)
    \/ /\ trajectory.update_count < MaxUpdates
       /\ update_emotional_trajectory("alice", VB)
    \/ compress_emotional_state("alice", "alice")
    \/ /\ reputation.total_sessions < MaxSessions
       /\ \E sp \in {RZero, ROne} : update_creator_reputation("alice", sp)

SpecProgram == InitReputation /\ [][NextProgram]_vars

\* a long run of trajectory updates, each with a vector of its own
LongVector(k) ==
    EmotionalVector(Rat(2 * (k % 3), 10), Rat(k % 2, 2), Rat(k % 5, 5), ROne, 1060 + 60 * k)

NextLong ==
    \/ initialize_session("alice", "session-1", V0, <<>>)
    \/ /\ trajectory.update_count < MaxLongUpdates
       /\ update_emotional_trajectory("alice", LongVector(trajectory.update_count))
    \/ compress_emotional_state("alice", "alice")

SpecLong == Init /\ [][NextLong]_vars

----------------------------------------------------------------------------
(* The biometric NFT program *)

EmotionData(v, a, d, c, t) ==
    [valence |-> v, arousal |-> a, dominance |-> d, confidence |-> c, timestamp |-> t]

ECalm == EmotionData(RHalf, Rat(3, 10), RHalf, ROne, 1000)
EEdge == EmotionData(RHalf, Rat(7, 10), RHalf, ROne, 1000)
EHigh == EmotionData(RHalf, Rat(9, 10), RHalf, ROne, 1000)
EmotionInputs == {ECalm, EEdge, EHigh}

NftIds == 1..Len(nfts)

initialize_collection(authority) ==
    /\ collection.status = "Uninitialized"
    /\ collection' = [status |-> "Active", authority |-> authority, total_supply |-> 0]
    /\ call' = [op |-> "initialize_collection", signer |-> authority]
    /\ result' = "Ok"
    /\ UNCHANGED <<clock, sessionVars, metadataVars, evaluation, nfts>>

mint_biometric_nft_without_count(owner, biometric_hash, emotion_data) ==
    /\ collection.status = "Active"
    /\ nfts' = Append(nfts,
                      [collection |-> collection.authority,
                       owner |-> owner,
                       biometric_hash |-> biometric_hash,
                       emotion_data |-> emotion_data,
                       minted_at |-> clock,
                       last_updated |-> 0,
                       generation |-> collection.total_supply + 1])
    /\ call' = [op |-> "mint_biometric_nft", signer |-> owner,
                emotion_data |-> emotion_data]
    /\ result' = "Ok"
    /\ UNCHANGED <<clock, sessionVars, metadataVars, evaluation, collection>>

mint_biometric_nft(owner, biometric_hash, emotion_data) ==
    /\ collection.status = "Active"
    /\ nfts' = Append(nfts,
                      [collection |-> collection.authority,
                       owner |-> owner,
                       biometric_hash |-> biometric_hash,
                       emotion_data |-> emotion_data,
                       minted_at |-> clock,
                       last_updated |-> 0,
                       generation |-> collection.total_supply + 1])
    /\ collection' = [collection EXCEPT !.total_supply = @ + 1]
    /\ call' = [op |-> "mint_biometric_nft", signer |-> owner,
                emotion_data |-> emotion_data]
    /\ result' = "Ok"
    /\ UNCHANGED <<clock, sessionVars, metadataVars, evaluation>>

update_emotion_state(owner, id, new_emotion_data) ==
    /\ id \in NftIds
    /\ call' = [op |-> "update_emotion_state", signer |-> owner, nft |-> id,
                emotion_data |-> new_emotion_data]
    /\ IF nfts[id].owner # owner
       THEN /\ result' = "Unauthorized"
            /\ UNCHANGED nfts
       ELSE /\ result' = "Ok"
            /\ nfts' = [nfts EXCEPT ![id].emotion_data = new_emotion_data,
                                    ![id].last_updated = clock]
    /\ UNCHANGED <<clock, sessionVars, metadataVars, evaluation, collection>>

TransferArousalLimit == Rat(7, 10)

transfer_check_arousal_only(nft, current_owner) ==
    IF ~RLt(nft.emotion_data.arousal, TransferArousalLimit) THEN "EmotionalStateUnstable"
    ELSE "Ok"

transfer_check_arousal_first(nft, current_owner) ==
    IF ~RLt(nft.emotion_data.arousal, TransferArousalLimit) THEN "EmotionalStateUnstable"
    ELSE IF nft.owner # current_owner THEN "Unauthorized"
    ELSE "Ok"

transfer_check_inclusive(nft, current_owner) ==
    IF nft.owner # current_owner THEN "Unauthorized"
    ELSE IF ~RLe(nft.emotion_data.arousal, TransferArousalLimit) THEN "EmotionalStateUnstable"
    ELSE "Ok"

\* the two require! checks of transfer_nft, in order
transfer_check(nft, current_owner) ==
    IF nft.owner # current_owner THEN "Unauthorized"
    ELSE IF ~RLt(nft.emotion_data.arousal, TransferArousalLimit) THEN "EmotionalStateUnstable"
    ELSE "Ok"

transfer_nft(current_owner, id, new_owner) ==
    /\ id \in NftIds
    /\ call' = [op |-> "transfer_nft", signer |-> current_owner, nft |-> id,
                new_owner |-> new_owner]
    /\ result' = transfer_check(nfts[id], current_owner)
    /\ IF transfer_check(nfts[id], current_owner) = "Ok"
       THEN nfts' = [nfts EXCEPT ![id].owner = new_owner,
                                 ![id].last_updated = clock]
       ELSE UNCHANGED nfts
    /\ UNCHANGED <<clock, sessionVars, metadataVars, evaluation, collection>>

NextNft ==
    \/ clock < MaxClock /\ Tick
    \/ \E k \in Keys : initialize_collection(k)
    \/ /\ collection.total_supply < MaxSupply
       /\ \E k \in Keys, e \in EmotionInputs : mint_biometric_nft(k, "hash", e)
    \/ \E k \in Keys, id \in NftIds, e \in EmotionInputs : update_emotion_state(k, id, e)
    \/ \E k \in Keys, id \in NftIds, n \in Keys : transfer_nft(k, id, n)

SpecNft == Init /\ [][NextNft]_vars

----------------------------------------------------------------------------
(* The emotional metadata program *)

classify_pattern_inclusive(valence, arousal, dominance) ==
    LET v == RLe(RHalf, valence)
        a == RLe(RHalf, arousal)
        d == RLe(RHalf, dominance)
    IN  CASE v /\ a /\ d -> "StablePositive"
          [] ~v /\ a /\ d -> "StableNegative"
          [] v /\ ~a /\ ~d -> "LowEnergy"
          [] ~v /\ a /\ ~d -> "HighEnergy"
          [] OTHER -> "UnstableMixed"

classify_pattern(valence, arousal, dominance) ==
    LET v == RLt(RHalf, valence)
        a == RLt(RHalf, arousal)
        d == RLt(RHalf, dominance)
    IN  CASE v /\ a /\ d -> "StablePositive"
          [] ~v /\ a /\ d -> "StableNegative"
          [] v /\ ~a /\ ~d -> "LowEnergy"
          [] ~v /\ a /\ ~d -> "HighEnergy"
          [] OTHER -> "UnstableMixed"

EmotionVector(v, a, d) == [valence |-> v, arousal |-> a, dominance |-> d]

MCalm == EmotionVector(RHalf, Rat(3, 10), Rat(7, 10))
MHigh == EmotionVector(Rat(9, 10), Rat(9, 10), RHalf)

\* an emotion vector with the biometric signature taken with it
Readings == {<<MCalm, "signature-1">>, <<MHigh, "signature-2">>}

MetadataIds == 1..Len(records)

initialize_registry(authority) ==
    /\ registry.status = "Uninitialized"
    /\ registry' = [status |-> "Active", authority |-> authority, total_records |-> 0,
                    last_update |-> clock]
    /\ call' = [op |-> "initialize_registry", signer |-> authority]
    /\ result' = "Ok"
    /\ UNCHANGED <<clock, sessionVars, nftVars, records, evaluation>>

store_emotional_metadata(owner, nft_mint, emotion_vector, biometric_signature, ai_confidence) ==
    /\ registry.status = "Active"
    /\ records' = Append(records,
                         [nft_mint |-> nft_mint,
                          owner |-> owner,
                          emotion_vector |-> emotion_vector,
                          biometric_signature |-> biometric_signature,
                          ai_confidence |-> ai_confidence,
                          timestamp |-> clock,
                          generation |-> registry.total_records + 1])
    /\ registry' = [registry EXCEPT !.total_records = @ + 1, !.last_update = clock]
    /\ call' = [op |-> "store_emotional_metadata", signer |-> owner, nft_mint |-> nft_mint,
                emotion_vector |-> emotion_vector,
                biometric_signature |-> biometric_signature]
    /\ result' = "Ok"
    /\ UNCHANGED <<clock, sessionVars, nftVars, evaluation>>

update_emotional_state_unchecked(owner, id, new_emotion_vector, new_biometric_signature, new_ai_confidence) ==
    /\ id \in MetadataIds
    /\ call' = [op |-> "update_emotional_state", signer |-> owner, metadata |-> id,
                emotion_vector |-> new_emotion_vector,
                biometric_signature |-> new_biometric_signature]
    /\ result' = "Ok"
    /\ records' = [records EXCEPT ![id].emotion_vector = new_emotion_vector,
                                  ![id].biometric_signature = new_biometric_signature,
                                  ![id].ai_confidence = new_ai_confidence,
                                  ![id].timestamp = clock]
    /\ UNCHANGED <<clock, sessionVars, nftVars, registry, evaluation>>

update_emotional_state(owner, id, new_emotion_vector, new_biometric_signature, new_ai_confidence) ==
    /\ id \in MetadataIds
    /\ call' = [op |-> "update_emotional_state", signer |-> owner, metadata |-> id,
                emotion_vector |-> new_emotion_vector,
                biometric_signature |-> new_biometric_signature]
    /\ IF records[id].owner # owner
       THEN /\ result' = "Unauthorized"
            /\ UNCHANGED records
       ELSE /\ result' = "Ok"
            /\ records' = [records EXCEPT ![id].emotion_vector = new_emotion_vector,
                                          ![id].biometric_signature = new_biometric_signature,
                                          ![id].ai_confidence = new_ai_confidence,
                                          ![id].timestamp = clock]
    /\ UNCHANGED <<clock, sessionVars, nftVars, registry, evaluation>>

\* the asset records of both programs: the NFTs and their metadata records
NextAssets ==
    \/ \E k \in Keys : initialize_collection(k)
    \/ /\ collection.total_supply < MaxSupply
       /\ \E k \in Keys : mint_biometric_nft(k, "hash", ECalm)
    \/ \E k \in Keys, id \in NftIds, e \in {ECalm, EHigh} : update_emotion_state(k, id, e)
    \/ \E k \in Keys, id \in NftIds, n \in Keys : transfer_nft(k, id, n)
    \/ initialize_registry("alice")
    \/ /\ registry.total_records < MaxRecords
       /\ \E k \in Keys : store_emotional_metadata(k, "mint-1", MCalm, "signature-1", Rat(8, 10))
    \/ \E k \in Keys, id \in MetadataIds, r \in Readings :
           update_emotional_state(k, id, r[1], r[2], Rat(8, 10))

SpecAssets == Init /\ [][NextAssets]_vars

\* mints and stores by different owners, interleaved
NextCounters ==
    \/ \E k \in Keys : initialize_collection(k)
    \/ /\ collection.total_supply < MaxMints
       /\ \E k \in Keys, e \in {ECalm, EHigh} : mint_biometric_nft(k, "hash", e)
    \/ \E k \in Keys : initialize_registry(k)
    \/ /\ registry.total_records < MaxStores
       /\ \E k \in Keys, r \in Readings :
              store_emotional_metadata(k, "mint-1", r[1], r[2], Rat(8, 10))

SpecCounters == Init /\ [][NextCounters]_vars

----------------------------------------------------------------------------
(* The helper functions taken alone, on arguments no instruction passes them *)

PatternLevels == {Rat(k, 10) : k \in 3..7}

PatternArguments == {<<v, a, d>> : v \in PatternLevels, a \in PatternLevels, d \in PatternLevels}

Evaluation(function, arguments) ==
    [function |-> function, arguments |-> arguments, done |-> FALSE, value |-> <<>>]

evaluate_classify_pattern ==
    /\ evaluation.function = "classify_pattern"
    /\ ~evaluation.done
    /\ evaluation' =
           [evaluation EXCEPT
               !.done = TRUE,
               !.value = classify_pattern(evaluation.arguments[1], evaluation.arguments[2],
                                          evaluation.arguments[3])]
    /\ call' = [op |-> "classify_pattern"]
    /\ result' = "Ok"
    /\ UNCHANGED <<clock, sessionVars, nftVars, metadataVars>>

InitFunctions ==
    /\ clock = 0
    /\ session = DefaultSession
    /\ performance = DefaultPerformance
    /\ trajectory = DefaultTrajectory
    /\ reputation = DefaultReputation
    /\ pushed = <<>>
    /\ applied = <<>>
    /\ parked = NoOtherSession
    /\ collection = NoCollection
    /\ nfts = <<>>
    /\ registry = NoRegistry
    /\ records = <<>>
    /\ evaluation \in {Evaluation("classify_pattern", x) : x \in PatternArguments}
    /\ call = [op |-> "none"]
    /\ result = "Ok"

NextFunctions ==
    \/ evaluate_classify_pattern

SpecFunctions == InitFunctions /\ [][NextFunctions]_vars

----------------------------------------------------------------------------
(* Properties *)

Last(s) == s[Len(s)]
Range(s) == {s[i] : i \in 1..Len(s)}
Tenths(k) == Rat(k, 10)

\* C1: the history never holds more than 100 entries and always is the last
\* min(100, n) of the n vectors pushed so far, in insertion order; after 101
\* pushes the first pushed vector is gone.
C1_HistoryIsLast100Pushed ==
    LET h == trajectory.emotional_history
        n == Len(pushed)
    IN  /\ Len(h) <= 100
        /\ Len(h) = IF n <= 100 THEN n ELSE 100
        /\ \A i \in 1..Len(h) : h[i] = pushed[n - Len(h) + i]
        /\ n = 101 => /\ pushed[1] \notin Range(h)
                      /\ h = SubSeq(pushed, 2, 101)

C1_Witness ==
    /\ Len(pushed) = 101
    /\ Len(trajectory.emotional_history) = 100
    /\ call.op = "update_emotional_trajectory"

\* C2: update_emotional_trajectory appends the session's vector from before
\* the call, then stores the new vector in the session, the complexity of the
\* post-push history in session.emotional_complexity and the prediction from
\* that same history in trajectory.predicted_next.
C2_AdvancePushesPriorVector ==
    [][call'.op = "update_emotional_trajectory" =>
          /\ Last(trajectory'.emotional_history) = session.emotional_state
          /\ Len(trajectory'.emotional_history) = Len(trajectory.emotional_history) + 1
          /\ SubSeq(trajectory'.emotional_history, 1, Len(trajectory.emotional_history))
                 = trajectory.emotional_history
          /\ session'.emotional_state = call'.emotional_vector
          /\ session'.emotional_complexity
                 = calculate_trajectory_complexity(trajectory'.emotional_history)
          /\ trajectory'.trajectory_complexity = session'.emotional_complexity
          /\ trajectory'.predicted_next
                 = predict_next_emotional_state(trajectory'.emotional_history)]_vars

C2_Witness ==
    /\ call.op = "update_emotional_trajectory"
    /\ Len(trajectory.emotional_history) = 2
    /\ Last(trajectory.emotional_history) # session.emotional_state
    /\ session.emotional_state = call.emotional_vector

\* C3: record_performance computes emotional_impact as the mean absolute
\* difference of valence, arousal and dominance between the incoming vector
\* and the session's vector before the call, overwrites the session's vector
\* and params, adds 1 to interaction_count and moves reputation_score to
\* r + 0.1 * (quality - r); from a fresh session at (0,0,0) the observation
\* (0.4, 0.6, 0.2) with quality 0.9 gives count 1, reputation 0.54, impact 0.4.
C3_RecordObservation ==
    [][call'.op = "record_performance" =>
          LET new == call'.emotional_vector
              old == session.emotional_state
              q == call'.quality_score
              r == session.reputation_score
          IN  /\ performance'.emotional_impact
                     = RDivInt(RAdd(RAdd(RAbs(RSub(new.valence, old.valence)),
                                         RAbs(RSub(new.arousal, old.arousal))),
                                    RAbs(RSub(new.dominance, old.dominance))), 3)
              /\ session'.emotional_state = new
              /\ session'.shader_params = call'.shader_parameters
              /\ session'.interaction_count = session.interaction_count + 1
              /\ session'.reputation_score = RAdd(r, RDivInt(RSub(q, r), 10))
              /\ (old = V0 /\ session.interaction_count = 0 /\ new = VA /\ q = Tenths(9))
                     => /\ session'.interaction_count = 1
                        /\ session'.reputation_score = Rat(54, 100)
                        /\ performance'.emotional_impact = Tenths(4)]_vars

C3_Witness ==
    /\ call.op = "record_performance"
    /\ call.emotional_vector = VA
    /\ call.quality_score = Tenths(9)
    /\ session.interaction_count = 1
    /\ session.reputation_score = Rat(54, 100)
    /\ performance.emotional_impact = Tenths(4)

\* C4 as stated: in every reachable state of an initialized session,
\* compressed_state is the content hash of the current vector.
C4_CompressedStateTracksCurrentVector ==
    session.status = "Active" =>
        session.compressed_state = hash_emotional_state(session.emotional_state)

\* C4 amended: compressed_state is the content hash of the current vector
\* right after initialize_session and after compress_emotional_state;
\* record_performance and update_emotional_trajectory leave it as it was.
C4_CompressedStateIsSnapshot ==
    [][LET e == session'.emotional_state
       IN  /\ call'.op \in {"initialize_session", "compress_emotional_state"} =>
                  session'.compressed_state
                      = <<e.valence, e.arousal, e.dominance, e.confidence, e.timestamp>>
           /\ call'.op \in {"record_performance", "update_emotional_trajectory"} =>
                  session'.compressed_state = session.compressed_state]_vars

C4_Witness ==
    /\ call.op = "compress_emotional_state"
    /\ session.interaction_count = 1
    /\ trajectory.update_count = 1
    /\ session.compressed_state = hash_emotional_state(session.emotional_state)

\* C5: an instruction given a vector or a score outside its documented domain
\* ends with InvalidRange (and changes nothing).
C5_OutOfDomainRejected ==
    /\ (call.op \in {"initialize_session", "record_performance",
                     "update_emotional_trajectory"}
           /\ ~InDomain(call.emotional_vector)) => result = "InvalidRange"
    /\ (call.op = "record_performance" /\ ~InUnit(call.quality_score))
           => result = "InvalidRange"

\* C6 as stated: a transfer of an NFT whose arousal is >= 0.7 ends with
\* EmotionalStateUnstable.
C6_UnstableTransferFailsUnstable ==
    (call.op = "transfer_nft"
        /\ ~RLt(nfts[call.nft].emotion_data.arousal, Tenths(7)))
        => result = "EmotionalStateUnstable"

\* C6 amended: a transfer of an NFT whose arousal is >= 0.7 fails and leaves
\* the NFT unchanged, with EmotionalStateUnstable when the signer is the
\* owner and with Unauthorized otherwise; with arousal < 0.7 and the owner
\* signing it succeeds and sets owner to new_owner.
C6_UnstableTransferBlocked ==
    [][call'.op = "transfer_nft" =>
          LET id == call'.nft
              nft == nfts[id]
          IN  IF ~RLt(nft.emotion_data.arousal, Tenths(7))
              THEN /\ result' = IF call'.signer = nft.owner
                                THEN "EmotionalStateUnstable" ELSE "Unauthorized"
                   /\ nfts' = nfts
              ELSE call'.signer = nft.owner =>
                       /\ result' = "Ok"
                       /\ nfts'[id].owner = call'.new_owner]_vars

C6_Witness ==
    /\ call.op = "transfer_nft"
    /\ result = "EmotionalStateUnstable"
    /\ nfts[call.nft].emotion_data.arousal = Tenths(7)
    /\ nfts[call.nft].owner = call.signer

\* C7: the session's reputation_score and the creator record's
\* reputation_score are in [0, 1] in every reachable state.
C7_ReputationInUnitInterval ==
    /\ session.status = "Active" => InUnit(session.reputation_score)
    /\ InUnit(reputation.reputation_score)

C9_ShortHistorySentinels ==
    LET zero == [valence |-> RZero, arousal |-> RZero, dominance |-> RZero,
                 confidence |-> RZero, timestamp |-> 0]
    IN  /\ predict_next_emotional_state(<<>>) = zero
        /\ calculate_trajectory_complexity(<<>>) = RHalf
        /\ predict_next_emotional_state(<<session.emotional_state>>) = zero
        /\ calculate_trajectory_complexity(<<session.emotional_state>>) = RHalf
        /\ Len(trajectory.emotional_history) = 1 =>
               /\ trajectory.predicted_next = zero
               /\ trajectory.trajectory_complexity = RHalf
        /\ (trajectory.update_count = 1 /\ call.op = "update_emotional_trajectory") =>
               /\ Len(trajectory.emotional_history) = 1
               /\ session.emotional_complexity = RHalf

C9_Witness ==
    /\ trajectory.update_count = 1
    /\ call.op = "update_emotional_trajectory"
    /\ Len(trajectory.emotional_history) = 1

\* C10: from total_sessions = 0 and any initial creativity_score, after N >= 1
\* applications creativity_score is the arithmetic mean of the N
\* creativity_index values applied.
C10_CreativityScoreIsMean ==
    /\ Len(applied) = reputation.total_sessions
    /\ reputation.total_sessions >= 1 =>
           reputation.creativity_score = RDivInt(RSum(applied), Len(applied))

C10_Witness ==
    /\ reputation.total_sessions = 2
    /\ reputation.creativity_score = RHalf
    /\ call.op = "update_creator_reputation"


\* C11: one update_creator_reputation sets reputation' = 0.9 * reputation +
\* 0.1 * session_performance, adds 1 to total_sessions, adds the session's
\* interaction_count to total_interactions and sets emotional_consistency to
\* 0.8 * reputation' + 0.2, computed from the updated reputation.
C11_ApplySession ==
    [][call'.op = "update_creator_reputation" =>
          LET r == reputation.reputation_score
              p == call'.session_performance
              updated == RAdd(RMul(Tenths(9), r), RMul(Tenths(1), p))
          IN  /\ reputation'.reputation_score = updated
              /\ reputation'.total_sessions = reputation.total_sessions + 1
              /\ reputation'.total_interactions
                     = reputation.total_interactions + session.interaction_count
              /\ reputation'.emotional_consistency
                     = RAdd(RMul(Tenths(8), updated), Tenths(2))]_vars

C11_Witness ==
    /\ call.op = "update_creator_reputation"
    /\ call.session_performance = ROne
    /\ reputation.total_sessions = 2
    /\ reputation.total_interactions = 1
    /\ reputation.reputation_score = Tenths(1)
    /\ reputation.emotional_consistency = Rat(28, 100)


\* two update_creator_reputation calls in a row, as they act on reputation_score
\* and on creativity_score of a record with n sessions so far
ReputationAfterTwo(r, p1, p2) == weighted_reputation(weighted_reputation(r, p1), p2)
CreativityAfterTwo(c, n, x1, x2) ==
    running_creativity_score(running_creativity_score(c, n + 1, x1), n + 2, x2)

\* C12 as stated: two updates with different inputs, applied to the same
\* creator record in the two orders, differ both in reputation_score and in
\* creativity_score.
C12_BothOrderDependent ==
    \A p1, p2 \in SessionPerformances, x1, x2 \in CreativityIndexInputs :
        (reputation.total_sessions >= 1 /\ p1 # p2 /\ x1 # x2) =>
            /\ ReputationAfterTwo(reputation.reputation_score, p1, p2)
                   # ReputationAfterTwo(reputation.reputation_score, p2, p1)
            /\ CreativityAfterTwo(reputation.creativity_score, reputation.total_sessions, x1, x2)
                   # CreativityAfterTwo(reputation.creativity_score, reputation.total_sessions, x2, x1)

\* C12 amended: the reputation EMA is order-dependent (different
\* session_performance values in the two orders give different
\* reputation_score), the running-mean creativity_score is not: both orders
\* give the same creativity_score.
C12_OnlyReputationOrderDependent ==
    /\ \A p1, p2 \in SessionPerformances :
           p1 # p2 =>
               ReputationAfterTwo(reputation.reputation_score, p1, p2)
                   # ReputationAfterTwo(reputation.reputation_score, p2, p1)
    /\ \A x1, x2 \in CreativityIndexInputs :
           CreativityAfterTwo(reputation.creativity_score, reputation.total_sessions, x1, x2)
               = CreativityAfterTwo(reputation.creativity_score, reputation.total_sessions, x2, x1)
    /\ (reputation.total_sessions = 2 /\ applied = <<RHalf, RHalf>>) =>
           reputation.creativity_score = RHalf

\* performance 1 then 0 from reputation 0 ends at 0.09; 0 then 1 ends at 0.1
C12_Witness ==
    /\ reputation.total_sessions = 2
    /\ call.op = "update_creator_reputation"
    /\ call.session_performance = RZero
    /\ reputation.reputation_score = Rat(9, 100)


\* C13: with two sessions, each with its own trajectory, an instruction on the
\* session it names never changes a field of the other session or trajectory, and
\* the named session and trajectory after it are a function of their own state
\* before it and of the instruction's arguments alone - so every interleaving
\* leaves each pair as its own instructions run alone would.
C13_SessionsIndependent ==
    [][/\ call'.op # "switch_session" => parked' = parked
       /\ call'.op = "switch_session" =>
              /\ parked'.session = session /\ parked'.trajectory = trajectory
              /\ session' = parked.session /\ trajectory' = parked.trajectory
       /\ call'.op = "record_performance" =>
              /\ trajectory' = trajectory
              /\ session' =
                     [session EXCEPT
                         !.emotional_state = call'.emotional_vector,
                         !.shader_params = call'.shader_parameters,
                         !.interaction_count = session.interaction_count + 1,
                         !.last_updated = clock,
                         !.reputation_score =
                             RAdd(RMul(Tenths(9), session.reputation_score),
                                  RMul(Tenths(1), call'.quality_score))]
       /\ call'.op = "update_emotional_trajectory" =>
              LET own == Append(trajectory.emotional_history, session.emotional_state)
              IN  /\ Len(own) <= HistoryCapacity
                  /\ trajectory'.emotional_history = own
                  /\ trajectory'.update_count = trajectory.update_count + 1
                  /\ trajectory'.predicted_next = predict_next_emotional_state(own)
                  /\ trajectory'.trajectory_complexity = calculate_trajectory_complexity(own)
                  /\ session' =
                         [session EXCEPT
                             !.emotional_state = call'.emotional_vector,
                             !.emotional_complexity = calculate_trajectory_complexity(own)]
       /\ call'.op = "compress_emotional_state" =>
              /\ trajectory' = trajectory
              /\ session' =
                     [session EXCEPT
                         !.compressed_state =
                             <<session.emotional_state.valence, session.emotional_state.arousal,
                               session.emotional_state.dominance,
                               session.emotional_state.confidence,
                               session.emotional_state.timestamp>>]]_vars

\* both sessions have recorded a performance and advanced their trajectories, from
\* different initial vectors, and the last instruction advanced the named one
C13_Witness ==
    /\ call.op = "update_emotional_trajectory"
    /\ session.session_id = "session-2" /\ parked.session.session_id = "session-1"
    /\ session.interaction_count = 1 /\ parked.session.interaction_count = 1
    /\ trajectory.update_count = 2 /\ parked.trajectory.update_count = 1
    /\ trajectory.emotional_history # parked.trajectory.emotional_history


\* C14 as stated: the classifier maps (0.6, 0.6, 0.6) to StablePositive and
\* (0.6, 0.4, 0.4) to UnstableMixed.
C14_ClassifierScenario ==
    (evaluation.function = "classify_pattern" /\ evaluation.done) =>
        /\ evaluation.arguments = <<Tenths(6), Tenths(6), Tenths(6)>>
               => evaluation.value = "StablePositive"
        /\ evaluation.arguments = <<Tenths(6), Tenths(4), Tenths(4)>>
               => evaluation.value = "UnstableMixed"

\* C14 amended: the classifier compares each of valence, arousal, dominance with
\* 0.5 (strictly greater) and the pattern is fixed by the three comparisons; it
\* maps (0.6, 0.6, 0.6) to StablePositive and (0.6, 0.4, 0.4) to LowEnergy, and
\* (0.6, 0.6, 0.4) is one of the four combinations that give UnstableMixed.
C14_ClassifierThresholds ==
    (evaluation.function = "classify_pattern" /\ evaluation.done) =>
        LET above(x) == x \in {Tenths(6), Tenths(7)}
            v == above(evaluation.arguments[1])
            a == above(evaluation.arguments[2])
            d == above(evaluation.arguments[3])
        IN  /\ evaluation.value =
                   IF v /\ a /\ d THEN "StablePositive"
                   ELSE IF ~v /\ a /\ d THEN "StableNegative"
                   ELSE IF v /\ ~a /\ ~d THEN "LowEnergy"
                   ELSE IF ~v /\ a /\ ~d THEN "HighEnergy"
                   ELSE "UnstableMixed"
            /\ evaluation.arguments = <<Tenths(6), Tenths(6), Tenths(6)>>
                   => evaluation.value = "StablePositive"
            /\ evaluation.arguments = <<Tenths(6), Tenths(4), Tenths(4)>>
                   => evaluation.value = "LowEnergy"
            /\ evaluation.arguments = <<Tenths(6), Tenths(6), Tenths(4)>>
                   => evaluation.value = "UnstableMixed"

C14_Witness ==
    /\ evaluation.function = "classify_pattern" /\ evaluation.done
    /\ evaluation.arguments = <<Tenths(6), Tenths(4), Tenths(4)>>
    /\ evaluation.value = "LowEnergy"


\* C15: compress_emotional_state sets compressed_state to the hash of the current
\* vector and changes no other field of the session (nor any other account), so
\* a second consecutive call leaves the session as the first left it.
C15_RecomputeHashIdempotent ==
    [][call'.op = "compress_emotional_state" =>
          LET e == session.emotional_state
              digest == <<e.valence, e.arousal, e.dominance, e.confidence, e.timestamp>>
          IN  /\ session'.compressed_state = digest
              /\ session' = [session EXCEPT !.compressed_state = digest]
              /\ session'.emotional_state = session.emotional_state
              /\ session'.shader_params = session.shader_params
              /\ session'.interaction_count = session.interaction_count
              /\ session'.reputation_score = session.reputation_score
              /\ session'.emotional_complexity = session.emotional_complexity
              /\ session'.creativity_index = session.creativity_index
              /\ call.op = "compress_emotional_state" => session' = session
              /\ UNCHANGED <<performance, trajectory, reputation>>]_vars

\* a compress after a recorded performance: the hash is that of the recorded
\* vector, no longer the one initialize_session stored
C15_Witness ==
    /\ call.op = "compress_emotional_state"
    /\ session.interaction_count = 1
    /\ session.emotional_state = VA
    /\ session.compressed_state = <<Rat(4, 10), Rat(6, 10), Rat(2, 10), ROne, 1060>>


\* C16 as stated: once minted or stored, no later operation changes an NFT's
\* biometric_hash or emotion_data, nor a metadata record's emotion_vector or
\* biometric_signature.
C16_FingerprintImmutable ==
    [][/\ \A id \in NftIds :
              /\ nfts'[id].biometric_hash = nfts[id].biometric_hash
              /\ nfts'[id].emotion_data = nfts[id].emotion_data
       /\ \A id \in MetadataIds :
              /\ records'[id].emotion_vector = records[id].emotion_vector
              /\ records'[id].biometric_signature = records[id].biometric_signature]_vars

\* C16 amended: an NFT's biometric_hash never changes after the mint; its
\* emotion_data is replaced by every update_emotion_state its owner signs and by
\* nothing else (not by transfer_nft); a metadata record's emotion_vector and
\* biometric_signature are replaced by every update_emotional_state its owner
\* signs and by nothing else.
C16_FingerprintChangesOnlyByOwnerUpdate ==
    [][/\ \A id \in NftIds :
              /\ nfts'[id].biometric_hash = nfts[id].biometric_hash
              /\ IF /\ call'.op = "update_emotion_state" /\ call'.nft = id
                    /\ call'.signer = nfts[id].owner
                 THEN nfts'[id].emotion_data = call'.emotion_data
                 ELSE nfts'[id].emotion_data = nfts[id].emotion_data
       /\ \A id \in MetadataIds :
              IF /\ call'.op = "update_emotional_state" /\ call'.metadata = id
                 /\ call'.signer = records[id].owner
              THEN /\ records'[id].emotion_vector = call'.emotion_vector
                   /\ records'[id].biometric_signature = call'.biometric_signature
              ELSE /\ records'[id].emotion_vector = records[id].emotion_vector
                   /\ records'[id].biometric_signature = records[id].biometric_signature]_vars

\* an NFT minted calm now holds the high-arousal data of an update, and a
\* metadata record stored calm has just been given another vector and signature
C16_Witness ==
    /\ Len(nfts) = 1 /\ nfts[1].emotion_data = EHigh /\ nfts[1].biometric_hash = "hash"
    /\ Len(records) = 1 /\ records[1].emotion_vector = MHigh
    /\ records[1].biometric_signature = "signature-2"
    /\ call.op = "update_emotional_state" /\ result = "Ok"


\* C17: update_count is the number of update_emotional_trajectory calls completed
\* on the trajectory: each call adds exactly 1, also once the history holds 100
\* entries, and nothing else changes it; so it is never below the length of the
\* history and passes 100 while the history stays at 100 entries.
C17_UpdateCountCountsCalls ==
    [][/\ trajectory'.update_count = Len(pushed')
       /\ trajectory'.update_count >= Len(trajectory'.emotional_history)
       /\ trajectory'.update_count >= trajectory.update_count
       /\ IF call'.op = "update_emotional_trajectory"
          THEN trajectory'.update_count = trajectory.update_count + 1
          ELSE trajectory'.update_count = trajectory.update_count]_vars

C17_Witness ==
    /\ call.op = "update_emotional_trajectory"
    /\ trajectory.update_count = 102
    /\ Len(trajectory.emotional_history) = 100


\* C18: the creativity boost stored by record_performance is in [0, 1] for any
\* finite shader parameters and quality score.
C18_CreativityBoostInUnitInterval ==
    call.op = "record_performance" =>
        /\ RLe(RZero, performance.creativity_boost)
        /\ RLe(performance.creativity_boost, ROne)


\* C19: every value is a fixed point of the session's reputation update at its
\* own target, update_reputation(r, r) = r, so a record_performance whose
\* quality_score equals the session's reputation_score leaves it unchanged.
C19_ReputationFixedPoint ==
    [][call'.op = "record_performance" =>
          /\ \A r \in Qualities \cup {session.reputation_score, session'.reputation_score} :
                 update_reputation(r, r) = r
          /\ call'.quality_score = session.reputation_score
                 => session'.reputation_score = session.reputation_score]_vars

\* a performance of quality 0.5 was recorded on a session of reputation 0.5
C19_Witness ==
    /\ call.op = "record_performance"
    /\ call.quality_score = RHalf
    /\ session.interaction_count = 1
    /\ session.reputation_score = RHalf


\* C20: initialize_session leaves the session with reputation_score 0.5,
\* emotional_complexity 0.5, creativity_index 0.5, interaction_count 0, the
\* vector and the parameters of the call, the signer as creator, and the hash of
\* the initial vector in compressed_state.
C20_InitializeDefaults ==
    call.op = "initialize_session" =>
        LET e == call.emotional_vector
        IN  /\ session.status = "Active"
            /\ session.reputation_score = Rat(1, 2)
            /\ session.emotional_complexity = Rat(1, 2)
            /\ session.creativity_index = Rat(1, 2)
            /\ session.interaction_count = 0
            /\ session.emotional_state = e
            /\ session.shader_params = call.shader_parameters
            /\ session.creator = call.signer
            /\ session.compressed_state
                   = <<e.valence, e.arousal, e.dominance, e.confidence, e.timestamp>>

C20_Witness ==
    /\ call.op = "initialize_session"
    /\ call.signer = "bob"
    /\ session.creator = "bob"
    /\ session.emotional_state = VBad
    /\ session.reputation_score = RHalf


\* C21: in every reachable state trajectory_complexity and the session's
\* emotional_complexity lie in [0, 1]; after an update the two are equal, 0.5
\* while the history has fewer than 2 entries and otherwise the mean Euclidean
\* distance of consecutive entries, clamped above at 1 (spelled out here for a
\* history of two entries, the square root to within 1/100).
C21_ComplexityInUnitInterval ==
    LET h == trajectory.emotional_history
        c == trajectory.trajectory_complexity
        squared(x, y) == RMul(RSub(x, y), RSub(x, y))
        distance2 == RAdd(RAdd(squared(h[2].valence, h[1].valence),
                               squared(h[2].arousal, h[1].arousal)),
                          squared(h[2].dominance, h[1].dominance))
    IN  /\ RLe(RZero, c) /\ RLe(c, ROne)
        /\ RLe(RZero, session.emotional_complexity)
        /\ RLe(session.emotional_complexity, ROne)
        /\ trajectory.update_count >= 1 =>
               /\ session.emotional_complexity = c
               /\ Len(h) < 2 => c = Rat(1, 2)
               /\ Len(h) = 2 =>
                      IF RLe(ROne, distance2)
                      THEN c = ROne
                      ELSE /\ RLe(RMul(c, c), distance2)
                           /\ RLt(distance2, RMul(RAdd(c, Rat(1, 100)), RAdd(c, Rat(1, 100))))

\* two updates from a session whose vector was out of the documented domain:
\* the one step in the history is longer than 1 and the complexity is clamped
C21_Witness ==
    /\ call.op = "update_emotional_trajectory"
    /\ Len(trajectory.emotional_history) = 2
    /\ trajectory.emotional_history[1] = VBad
    /\ trajectory.emotional_history[2] = VB
    /\ trajectory.trajectory_complexity = ROne
    /\ session.emotional_complexity = ROne


\* C22: update_emotion_state and transfer_nft on an NFT, and
\* update_emotional_state on a metadata record, signed by anyone but the record's
\* stored owner fail with Unauthorized and leave every record as it was; in
\* transfer_nft this holds whatever the stored arousal is, 0.7 and above included.
C22_NonOwnerUnauthorized ==
    [][/\ (/\ call'.op \in {"update_emotion_state", "transfer_nft"}
           /\ call'.signer # nfts[call'.nft].owner)
              => /\ result' = "Unauthorized"
                 /\ nfts' = nfts
                 /\ collection' = collection
       /\ (/\ call'.op = "update_emotional_state"
           /\ call'.signer # records[call'.metadata].owner)
              => /\ result' = "Unauthorized"
                 /\ records' = records
                 /\ registry' = registry
       /\ result' = "Unauthorized"
              => /\ nfts' = nfts /\ records' = records
                 /\ \/ /\ call'.op \in {"update_emotion_state", "transfer_nft"}
                       /\ call'.signer # nfts[call'.nft].owner
                    \/ /\ call'.op = "update_emotional_state"
                       /\ call'.signer # records[call'.metadata].owner]_vars

\* a transfer signed by a non-owner of an NFT whose arousal is 0.9
C22_Witness ==
    /\ call.op = "transfer_nft"
    /\ result = "Unauthorized"
    /\ call.signer # nfts[call.nft].owner
    /\ nfts[call.nft].emotion_data = EHigh


\* C23: an NFT's owner changes only in a transfer_nft step on that NFT whose
\* signer is the owner held just before the step and whose stored arousal just
\* before the step is below 0.7, and then becomes the new_owner of the call;
\* mint_biometric_nft gives the new NFT the minting signer as owner and
\* update_emotion_state never changes an owner.
C23_OwnerChangesOnlyByTransfer ==
    [][/\ \A id \in NftIds :
              nfts'[id].owner # nfts[id].owner =>
                  /\ call'.op = "transfer_nft" /\ call'.nft = id
                  /\ result' = "Ok"
                  /\ call'.signer = nfts[id].owner
                  /\ 10 * nfts[id].emotion_data.arousal.n < 7 * nfts[id].emotion_data.arousal.d
                  /\ nfts'[id].owner = call'.new_owner
       /\ call'.op = "mint_biometric_nft" =>
              /\ Len(nfts') = Len(nfts) + 1
              /\ nfts'[Len(nfts')].owner = call'.signer
       /\ call'.op = "update_emotion_state" =>
              \A id \in NftIds : nfts'[id].owner = nfts[id].owner]_vars

\* bob holds an NFT that alice handed over
C23_Witness ==
    /\ call.op = "transfer_nft" /\ result = "Ok"
    /\ call.signer = "alice" /\ call.new_owner = "bob"
    /\ nfts[call.nft].owner = "bob"


\* C24: total_supply of the collection is the number of NFTs minted and
\* total_records of the registry the number of records stored; the k-th minted
\* (stored) record has generation k, so no two records of the collection
\* (registry) share a generation, whoever minted or stored them.
C24_GenerationsAreUnique ==
    /\ collection.total_supply = Len(nfts)
    /\ \A k \in 1..Len(nfts) : nfts[k].generation = k
    /\ \A i, j \in 1..Len(nfts) : i # j => nfts[i].generation # nfts[j].generation
    /\ registry.total_records = Len(records)
    /\ \A k \in 1..Len(records) : records[k].generation = k
    /\ \A i, j \in 1..Len(records) : i # j => records[i].generation # records[j].generation

\* two NFTs minted by different owners and two records stored by different owners
C24_Witness ==
    /\ Len(nfts) = 2 /\ nfts[1].owner # nfts[2].owner
    /\ collection.total_supply = 2
    /\ Len(records) = 2 /\ records[1].owner # records[2].owner
    /\ registry.total_records = 2
    /\ records[2].generation = 2 /\ nfts[2].generation = 2


\* C25: a creator record counts each session at most once: total_sessions never
\* exceeds the number of sessions initialized (here at most one), nor
\* total_interactions the interaction_count of those sessions, and a session is
\* only ever applied by the creator who owns it.
C25_SessionCountedOnce ==
    /\ reputation.total_sessions <= (IF session.status = "Active" THEN 1 ELSE 0)
    /\ reputation.total_interactions <= session.interaction_count
    /\ call.op = "update_creator_reputation" => call.signer = session.creator


\* C26: no instruction after initialize_session changes the session's
\* creativity_index, which therefore is 0.5 for as long as the session exists;
\* update_creator_reputation changes no field of the session; and the
\* creativity_score of a creator record that started with total_sessions = 0 is
\* exactly 0.5 after any number of updates, whatever it held before.
C26_CreativityIndexStaysHalf ==
    [][/\ session'.status = "Active" => session'.creativity_index = Rat(1, 2)
       /\ session.status = "Active" => session'.creativity_index = session.creativity_index
       /\ call'.op = "update_creator_reputation" => session' = session
       /\ reputation'.total_sessions >= 1 => reputation'.creativity_score = Rat(1, 2)]_vars

\* two updates of a record whose creativity_score started at 1, after a recorded
\* performance whose creativity boost was not 0.5
C26_Witness ==
    /\ call.op = "update_creator_reputation"
    /\ reputation.total_sessions = 2
    /\ Len(applied) = 2
    /\ session.interaction_count = 1
    /\ performance.creativity_boost # RHalf
    /\ session.creativity_index = RHalf
    /\ reputation.creativity_score = RHalf

====
